---------------------------- MODULE Spec2Model ----------------------------
(***************************************************************************)
(* Model of the hand-written lexer of src/parser/lexer.rs.                 *)
(*                                                                         *)
(* A character is a one-character string; the sentinel '\0' that           *)
(* Lexer::consume substitutes for an exhausted character source is the     *)
(* string "NUL".  The input text is a sequence of characters, the Chars     *)
(* iterator is the pair (input, pos): pos is the index of the lookahead    *)
(* cur_char in input, Len(input) + 1 once the iterator is exhausted.       *)
(* A token is a record [kind, arg, rc]: kind and arg are the variant and   *)
(* its inner variant, rc the handle (Rc<String>) of its text in the        *)
(* context's string table, 0 for a token that carries none.  lexers counts  *)
(* the lexers constructed over the compile context so far.                 *)
(***************************************************************************)
EXTENDS Integers, Sequences, FiniteSets, TLC

VARIABLES input, pos, cur_char, buffer, table, result, item, out, lexers

vars == <<input, pos, cur_char, buffer, table, result, item, out, lexers>>

(***************************************************************************)
(* Bounds.                                                                 *)
(***************************************************************************)
MaxLen == 3          \* longest input of Spec
MaxFairLen == 3      \* longest input of FairSpec
MaxOpLen == 3        \* longest input of SpecOps
MaxCommentLen == 6   \* longest input of SpecComment
MaxNumLen == 4       \* longest input of SpecNum
MaxDotLen == 6       \* longest input of SpecDot
MaxCharLen == 5      \* most characters after the opening quote in SpecChar
MaxPieces == 2       \* most lexemes in an input of SpecCharSeq
MaxWsLen == 4        \* longest input of SpecWs
MaxAssertLen == 3    \* longest input of SpecAssert
MaxLexers == 2       \* most lexers over one compile context in SpecShared
MaxSharedPieces == 1 \* most lexemes in an input of SpecShared
MaxOut == 7          \* how many of the first returned tokens out records

(***************************************************************************)
(* Characters and the classifier (parser::util::char_util).                *)
(***************************************************************************)
NUL == "NUL"

LowerCase == {"a", "b", "c", "d", "e", "f", "g", "h", "i", "j", "k", "l", "m",
              "n", "o", "p", "q", "r", "s", "t", "u", "v", "w", "x", "y", "z"}

UpperCase == {"A", "B", "C", "D", "E", "F", "G", "H", "I", "J", "K", "L", "M",
              "N", "O", "P", "Q", "R", "S", "T", "U", "V", "W", "X", "Y", "Z"}

is_whitespace == {" ", "\t", "\n", "\r"}

is_alpha == LowerCase \cup UpperCase

is_binary_numeral == {"0", "1"}

is_octal_numeral == {"0", "1", "2", "3", "4", "5", "6", "7"}

is_decimal_numeral == is_octal_numeral \cup {"8", "9"}

is_hexdec_numeral == is_decimal_numeral \cup {"a", "b", "c", "d", "e", "f"}
                                        \cup {"A", "B", "C", "D", "E", "F"}

is_alpha_numeral == is_alpha \cup is_decimal_numeral

Punctuation == {"(", ")", "[", "]", "{", "}", "?", ";", ",", "_", ".", "+", "-",
                "*", "/", "%", "^", "!", "=", "&", "|", "<", ">", "'", "\"",
                "\\", "@", "#", ":", "~", "$"}

\* every character an input can hold, and the sentinel
AnyChar == is_alpha \cup is_decimal_numeral \cup is_whitespace
               \cup Punctuation \cup {NUL}

\* c.is_none_of(&[...]) as the set of the characters that satisfy it
is_none_of(chars) == AnyChar \ chars

(***************************************************************************)
(* Tokens (parser::token).                                                 *)
(***************************************************************************)
Tok(kind, arg) == [kind |-> kind, arg |-> arg, rc |-> 0]

TextTok(kind, arg, rc) == [kind |-> kind, arg |-> arg, rc |-> rc]

NoToken == Tok("NotCalled", "")

Ret(s, t) == [self |-> s, token |-> t]

\* a failed assert_eq!/assert!/unreachable!: the call panics, no token is made
Abort(s) == Ret(s, Tok("Panic", ""))

(***************************************************************************)
(* The string table of the compile context: table[rc] is the text of       *)
(* handle rc.                                                              *)
(***************************************************************************)
get_or_insert(tbl, text) ==
    IF \E i \in 1..Len(tbl) : tbl[i] = text
    THEN [table |-> tbl, rc |-> CHOOSE i \in 1..Len(tbl) : tbl[i] = text]
    ELSE [table |-> Append(tbl, text), rc |-> Len(tbl) + 1]

(***************************************************************************)
(* The lexer's primitive steps.  s is the lexer with its context:          *)
(* [pos, cur_char, buffer, table].                                         *)
(***************************************************************************)
store(s) == [s EXCEPT !.buffer = Append(s.buffer, s.cur_char)]

consume(s) ==
    LET p == IF s.pos <= Len(input) THEN s.pos + 1 ELSE s.pos
    IN  [s EXCEPT !.pos = p,
                  !.cur_char = IF p <= Len(input) THEN input[p] ELSE NUL]

get(s) == s.cur_char

make(s, token) == Ret(s, token)

\* clear_buffer that leaves the buffer as it is
clear_buffer_kept(s) == s

clear_buffer(s) == [s EXCEPT !.buffer = <<>>]

\* drain_buffer that allocates a new handle instead of asking the string table
drain_buffer_fresh(s) ==
    [self |-> clear_buffer([s EXCEPT !.table = Append(s.table, s.buffer)]),
     rc |-> Len(s.table) + 1]

drain_buffer(s) ==
    LET r == get_or_insert(s.table, s.buffer)
    IN  [self |-> clear_buffer([s EXCEPT !.table = r.table]), rc |-> r.rc]

RECURSIVE store_while(_, _)
store_while(s, predicate) ==
    IF get(s) \in predicate THEN store_while(consume(store(s)), predicate) ELSE s

RECURSIVE skip_while(_, _)
skip_while(s, predicate) ==
    IF get(s) \in predicate THEN skip_while(consume(s), predicate) ELSE s

\* let drained = self.drain_buffer(); self.make(<token>(drained))
make_drained(s, kind, arg) ==
    LET d == drain_buffer(s) IN make(d.self, TextTok(kind, arg, d.rc))


(***************************************************************************)
(* Comments.                                                               *)
(***************************************************************************)
\* scan_line_comment without the consume() after the skip
scan_line_comment_no_consume(s) ==
    IF get(s) # "/" THEN Abort(s)
    ELSE make(skip_while(s, is_none_of({"\n", NUL})), Tok("Comment", ""))

scan_line_comment(s) ==
    IF get(s) # "/" THEN Abort(s)
    ELSE make(consume(skip_while(s, is_none_of({"\n", NUL}))),
              Tok("Comment", ""))

\* the loop with `'*' => self.consume()` in place of `'*' => continue`
RECURSIVE multi_line_comment_loop_skip_star(_)
multi_line_comment_loop_skip_star(s) ==
    IF get(s) = "*"
    THEN LET s1 == consume(s)
         IN  IF get(s1) = "/" THEN make(consume(s1), Tok("Comment", ""))
             ELSE multi_line_comment_loop_skip_star(consume(s1))
    ELSE IF get(s) = NUL THEN make(s, Tok("Error", ""))
    ELSE multi_line_comment_loop_skip_star(consume(s))

RECURSIVE multi_line_comment_loop(_)
multi_line_comment_loop(s) ==
    IF get(s) = "*"
    THEN LET s1 == consume(s)
         IN  IF get(s1) = "/" THEN make(consume(s1), Tok("Comment", ""))
             ELSE IF get(s1) = "*" THEN multi_line_comment_loop(s1)
             ELSE multi_line_comment_loop(consume(s1))
    ELSE IF get(s) = NUL THEN make(s, Tok("Error", ""))
    ELSE multi_line_comment_loop(consume(s))

scan_multi_line_comment(s) ==
    IF get(s) # "*" THEN Abort(s)
    ELSE multi_line_comment_loop(consume(s))

(***************************************************************************)
(* Identifiers.                                                            *)
(***************************************************************************)
scan_identifier(s) ==
    IF get(s) \notin is_alpha THEN Abort(s)
    ELSE make_drained(store_while(s, is_alpha_numeral \cup {"_"}),
                      "Identifier", "")

(***************************************************************************)
(* Character and string literals.                                          *)
(***************************************************************************)
\* the 'x' arm with any hex digit accepted as the first digit
char_literal_hex_escape_any_first(s) ==
    LET s1 == consume(store(s))
    IN  IF get(s1) = "'" THEN make(s1, Tok("Error", ""))
        ELSE IF get(s1) \in is_hexdec_numeral
        THEN LET s2 == consume(store(s1))
             IN  IF get(s2) = "'" THEN make(s2, Tok("Error", ""))
                 ELSE IF get(s2) \in is_hexdec_numeral
                 THEN LET s3 == consume(store(s2))
                      IN  IF get(s3) = "'"
                          THEN make_drained(s3, "Literal", "Char")
                          ELSE make(s3, Tok("Error", ""))
                 ELSE make(s2, Tok("Error", ""))
        ELSE make(s1, Tok("Error", ""))

char_literal_hex_escape(s) ==
    LET s1 == consume(store(s))
    IN  IF get(s1) = "'" THEN make(s1, Tok("Error", ""))
        ELSE IF get(s1) \in is_octal_numeral
        THEN LET s2 == consume(store(s1))
             IN  IF get(s2) = "'" THEN make(s2, Tok("Error", ""))
                 ELSE IF get(s2) \in is_hexdec_numeral
                 THEN LET s3 == consume(store(s2))
                      IN  IF get(s3) = "'"
                          THEN make_drained(s3, "Literal", "Char")
                          ELSE make(s3, Tok("Error", ""))
                 ELSE make(s2, Tok("Error", ""))
        ELSE make(s1, Tok("Error", ""))

char_literal_escape(s) ==
    LET s1 == consume(store(s))
    IN  IF get(s1) \in {"n", "t", "r", "\\", "'"}
        THEN LET s2 == consume(store(s1))
             IN  IF get(s2) = "'"
                 THEN make_drained(consume(s2), "Literal", "Char")
                 ELSE make(s2, Tok("Error", ""))
        ELSE IF get(s1) = "x" THEN char_literal_hex_escape(s1)
        ELSE IF get(s1) = "u" THEN make(consume(store(s1)), Tok("Error", ""))
        ELSE make(s1, Tok("Error", ""))

\* the plain arm that takes any character for the closing quote
char_literal_plain_unclosed(s) ==
    LET s1 == consume(store(s))
        d == drain_buffer(s1)
    IN  make(consume(d.self), TextTok("Literal", "Char", d.rc))

char_literal_plain(s) ==
    LET s1 == consume(store(s))
    IN  IF get(s1) = "'"
        THEN LET d == drain_buffer(s1)
             IN  make(consume(d.self), TextTok("Literal", "Char", d.rc))
        ELSE make(s1, Tok("Error", ""))

scan_char_literal(s) ==
    IF get(s) # "'" THEN Abort(s)
    ELSE LET s1 == consume(s)
         IN  IF get(s1) = "'" THEN make(s1, Tok("Error", ""))
             ELSE IF get(s1) = "\\" THEN char_literal_escape(s1)
             ELSE char_literal_plain(s1)

scan_string_literal(s) == make(s, Tok("Error", ""))

(***************************************************************************)
(* Number literals.                                                        *)
(***************************************************************************)
scan_integral_literal_suffix(s) ==
    make_drained(store_while(s, is_alpha_numeral), "Literal", "Integer")

\* scan_binary_literal that consumes the `b` without storing it
scan_binary_literal_prefix_skipped(s) ==
    IF get(s) # "b" THEN Abort(s)
    ELSE make_drained(store_while(consume(s), is_binary_numeral \cup {"_"}),
                      "Literal", "Integer")

scan_binary_literal(s) ==
    IF get(s) # "b" THEN Abort(s)
    ELSE make_drained(store_while(consume(store(s)), is_binary_numeral \cup {"_"}),
                      "Literal", "Integer")

scan_octal_literal(s) ==
    IF get(s) # "o" THEN Abort(s)
    ELSE make_drained(store_while(consume(store(s)), is_octal_numeral \cup {"_"}),
                      "Literal", "Integer")

scan_hexdec_literal(s) ==
    IF get(s) # "x" THEN Abort(s)
    ELSE make_drained(store_while(consume(store(s)), is_hexdec_numeral \cup {"_"}),
                      "Literal", "Integer")

scan_float_literal(s) ==
    IF get(s) # "." THEN Abort(s)
    ELSE Ret(s, Tok("EndOfFile", ""))

scan_decimal_literal(s) ==
    IF get(s) \notin is_decimal_numeral \cup {"_"} THEN Abort(s)
    ELSE LET s1 == store_while(s, is_decimal_numeral \cup {"_"})
         IN  IF get(s1) = "." THEN scan_float_literal(s1)
             ELSE make_drained(s1, "Literal", "Integer")

number_literal_zero(s) ==
    LET s1 == consume(store(s))
    IN  IF get(s1) = "b" THEN scan_binary_literal(s1)
        ELSE IF get(s1) = "o" THEN scan_octal_literal(s1)
        ELSE IF get(s1) = "x" THEN scan_hexdec_literal(s1)
        ELSE IF get(s1) = "." THEN scan_float_literal(s1)
        ELSE IF get(s1) \in is_decimal_numeral \cup {"_"}
        THEN scan_decimal_literal(s1)
        ELSE IF get(s1) \in is_alpha THEN scan_integral_literal_suffix(s1)
        ELSE make(s1, Tok("Error", ""))

scan_number_literal(s) ==
    IF get(s) \notin is_decimal_numeral THEN Abort(s)
    ELSE IF get(s) = "0" THEN number_literal_zero(s)
    ELSE IF get(s) \in is_decimal_numeral \ {"0"} THEN scan_decimal_literal(s)
    ELSE Abort(s)

(***************************************************************************)
(* TokenStream::next_token: the arms of its match, in the order of the     *)
(* source.                                                                 *)
(***************************************************************************)
\* the whitespace arm that consumes one character only
arm_whitespace_one(s) == make(consume(s), Tok("Whitespace", ""))

arm_whitespace(s) == make(skip_while(s, is_whitespace), Tok("Whitespace", ""))

\* the arm with an underscore that starts an identifier when one can follow
arm_underscore_identifier(s) ==
    IF get(consume(s)) \in is_alpha_numeral \cup {"_"}
    THEN make_drained(store_while(s, is_alpha_numeral \cup {"_"}),
                      "Identifier", "")
    ELSE make(consume(s), Tok("Underscore", ""))

arm_underscore(s) == make(consume(s), Tok("Underscore", ""))

\* arm_dot without the match on a third `.`
arm_dot_no_third(s) ==
    LET s1 == consume(s)
    IN  IF get(s1) = "." THEN make(consume(s1), Tok("DotDot", ""))
        ELSE make(s1, Tok("Dot", ""))

arm_dot(s) ==
    LET s1 == consume(s)
    IN  IF get(s1) = "."
        THEN LET s2 == consume(s1)
             IN  IF get(s2) = "." THEN make(consume(s2), Tok("DotDotDot", ""))
                 ELSE make(s2, Tok("DotDot", ""))
        ELSE make(s1, Tok("Dot", ""))

arm_plus(s) ==
    LET s1 == consume(s)
    IN  IF get(s1) = "=" THEN make(consume(s1), Tok("BinOpEq", "Plus"))
        ELSE make(s1, Tok("BinOp", "Plus"))

arm_minus(s) ==
    LET s1 == consume(s)
    IN  IF get(s1) = "=" THEN make(consume(s1), Tok("BinOpEq", "Minus"))
        ELSE IF get(s1) = ">" THEN make(consume(s1), Tok("Arrow", ""))
        ELSE make(s1, Tok("BinOp", "Minus"))

arm_star(s) ==
    LET s1 == consume(s)
    IN  IF get(s1) = "=" THEN make(consume(s1), Tok("BinOpEq", "Star"))
        ELSE make(s1, Tok("BinOp", "Star"))

\* arm_slash that consumes the `*` before it calls scan_multi_line_comment
arm_slash_star_consumed(s) ==
    LET s1 == consume(s)
    IN  IF get(s1) = "=" THEN make(consume(s1), Tok("BinOpEq", "Slash"))
        ELSE IF get(s1) = "/" THEN scan_line_comment(s1)
        ELSE IF get(s1) = "*" THEN scan_multi_line_comment(consume(s1))
        ELSE make(s1, Tok("BinOp", "Slash"))

arm_slash(s) ==
    LET s1 == consume(s)
    IN  IF get(s1) = "=" THEN make(consume(s1), Tok("BinOpEq", "Slash"))
        ELSE IF get(s1) = "/" THEN scan_line_comment(s1)
        ELSE IF get(s1) = "*" THEN scan_multi_line_comment(s1)
        ELSE make(s1, Tok("BinOp", "Slash"))

arm_percent(s) ==
    LET s1 == consume(s)
    IN  IF get(s1) = "=" THEN make(consume(s1), Tok("BinOpEq", "Percent"))
        ELSE make(s1, Tok("BinOp", "Percent"))

arm_caret(s) ==
    LET s1 == consume(s)
    IN  IF get(s1) = "=" THEN make(consume(s1), Tok("BinOpEq", "Caret"))
        ELSE make(s1, Tok("BinOp", "Caret"))

arm_exclamation(s) ==
    LET s1 == consume(s)
    IN  IF get(s1) = "=" THEN make(consume(s1), Tok("RelOp", "NotEq"))
        ELSE make(s1, Tok("Exclamation", ""))

arm_eq(s) ==
    LET s1 == consume(s)
    IN  IF get(s1) = ">" THEN make(consume(s1), Tok("FatArrow", ""))
        ELSE IF get(s1) = "=" THEN make(consume(s1), Tok("RelOp", "EqEq"))
        ELSE make(s1, Tok("Eq", ""))

arm_and(s) ==
    LET s1 == consume(s)
    IN  IF get(s1) = "&" THEN make(consume(s1), Tok("LogicalOp", "AndAnd"))
        ELSE IF get(s1) = "=" THEN make(consume(s1), Tok("BinOpEq", "And"))
        ELSE make(s1, Tok("BinOp", "And"))

arm_or(s) ==
    LET s1 == consume(s)
    IN  IF get(s1) = "|" THEN make(consume(s1), Tok("LogicalOp", "OrOr"))
        ELSE IF get(s1) = "=" THEN make(consume(s1), Tok("BinOpEq", "Or"))
        ELSE make(s1, Tok("BinOp", "Or"))

\* arm_less without the match on `=` after `<<`
arm_less_no_shift_assign(s) ==
    LET s1 == consume(s)
    IN  IF get(s1) = "<" THEN make(consume(s1), Tok("BinOp", "Shl"))
        ELSE IF get(s1) = "=" THEN make(consume(s1), Tok("RelOp", "LessEq"))
        ELSE make(s1, Tok("RelOp", "LessThan"))

arm_less(s) ==
    LET s1 == consume(s)
    IN  IF get(s1) = "<"
        THEN LET s2 == consume(s1)
             IN  IF get(s2) = "=" THEN make(consume(s2), Tok("BinOpEq", "Shl"))
                 ELSE make(s2, Tok("BinOp", "Shl"))
        ELSE IF get(s1) = "=" THEN make(consume(s1), Tok("RelOp", "LessEq"))
        ELSE make(s1, Tok("RelOp", "LessThan"))

arm_greater(s) ==
    LET s1 == consume(s)
    IN  IF get(s1) = ">"
        THEN LET s2 == consume(s1)
             IN  IF get(s2) = "=" THEN make(consume(s2), Tok("BinOpEq", "Shr"))
                 ELSE make(s2, Tok("BinOp", "Shr"))
        ELSE IF get(s1) = "=" THEN make(consume(s1), Tok("RelOp", "GreaterEq"))
        ELSE make(s1, Tok("RelOp", "GreaterThan"))

\* the last arm as `_ => self.make(Token::Error)`
arm_otherwise_error(s) == make(s, Tok("Error", ""))

\* the last arm of the match: _ => self.make(Token::EndOfFile)
arm_otherwise(s) == make(s, Tok("EndOfFile", ""))

next_token(self) ==
    LET s == clear_buffer(self)
        c == get(s)
    IN  IF c \in is_whitespace THEN arm_whitespace(s)
        ELSE IF c = "(" THEN make(consume(s), Tok("OpenDelim", "Paren"))
        ELSE IF c = "[" THEN make(consume(s), Tok("OpenDelim", "Bracket"))
        ELSE IF c = "{" THEN make(consume(s), Tok("OpenDelim", "Brace"))
        ELSE IF c = ")" THEN make(consume(s), Tok("CloseDelim", "Paren"))
        ELSE IF c = "]" THEN make(consume(s), Tok("CloseDelim", "Bracket"))
        ELSE IF c = "}" THEN make(consume(s), Tok("CloseDelim", "Brace"))
        ELSE IF c = "?" THEN make(consume(s), Tok("Question", ""))
        ELSE IF c = ";" THEN make(consume(s), Tok("SemiColon", ""))
        ELSE IF c = "," THEN make(consume(s), Tok("Comma", ""))
        ELSE IF c = "_" THEN arm_underscore(s)
        ELSE IF c = "." THEN arm_dot(s)
        ELSE IF c = "+" THEN arm_plus(s)
        ELSE IF c = "-" THEN arm_minus(s)
        ELSE IF c = "*" THEN arm_star(s)
        ELSE IF c = "/" THEN arm_slash(s)
        ELSE IF c = "%" THEN arm_percent(s)
        ELSE IF c = "^" THEN arm_caret(s)
        ELSE IF c = "!" THEN arm_exclamation(s)
        ELSE IF c = "=" THEN arm_eq(s)
        ELSE IF c = "&" THEN arm_and(s)
        ELSE IF c = "|" THEN arm_or(s)
        ELSE IF c = "<" THEN arm_less(s)
        ELSE IF c = ">" THEN arm_greater(s)
        ELSE IF c = "'" THEN scan_char_literal(s)
        ELSE IF c = "\"" THEN scan_string_literal(s)
        ELSE IF c \in is_decimal_numeral THEN scan_number_literal(s)
        ELSE IF c \in is_alpha THEN scan_identifier(s)
        ELSE arm_otherwise(s)

(***************************************************************************)
(* The state machine.                                                      *)
(***************************************************************************)
Self == [pos |-> pos, cur_char |-> cur_char, buffer |-> buffer, table |-> table]

\* the input texts over an alphabet, up to a length
Texts(alphabet, n) == UNION {[1..k -> alphabet] : k \in 0..n}

\* Lexer::new over a fresh CompileContext: an empty buffer and string table,
\* and the first consume()
New(texts) ==
    /\ input \in texts
    /\ pos = 1
    /\ cur_char = IF Len(input) >= 1 THEN input[1] ELSE NUL
    /\ buffer = <<>>
    /\ table = <<>>
    /\ result = NoToken
    /\ item = [tag |-> "NotCalled", token |-> NoToken]
    /\ out = <<>>
    /\ lexers = 1

\* what a call leaves in the lexer and its context, and the record of the
\* tokens returned so far (the first MaxOut of them)
Returned(r) ==
    /\ pos' = r.self.pos
    /\ cur_char' = r.self.cur_char
    /\ buffer' = r.self.buffer
    /\ table' = r.self.table
    /\ result' = r.token
    /\ out' = IF Len(out) < MaxOut THEN Append(out, r.token) ELSE out
    /\ input' = input
    /\ lexers' = lexers

\* a direct call of TokenStream::next_token
NextToken ==
    /\ Returned(next_token(Self))
    /\ item' = item

\* a pull through the Iterator adapter
IterNext ==
    LET r == next_token(Self)
    IN  /\ Returned(r)
        /\ item' = IF r.token.kind = "EndOfFile"
                   THEN [tag |-> "None", token |-> NoToken]
                   ELSE [tag |-> "Some", token |-> r.token]

Next == NextToken \/ IterNext

Alphabet == {"a", "_", "0", "1", ".", " ", ";", "\"", "@", "'", "/", NUL}

Init == New(Texts(Alphabet, MaxLen))

Spec == Init /\ [][Next]_vars

\* the caller keeps pulling tokens
FairAlphabet == {"a", "0", ".", " ", ";", "\""}

FairInit == New(Texts(FairAlphabet, MaxFairLen))

FairSpec == FairInit /\ [][Next]_vars /\ WF_vars(Next)

\* inputs made of operator characters
OpAlphabet == {"+", "-", "*", "/", "%", "^", "!", "=", "&", "|", "<", ">", "a"}

OpInit == New(Texts(OpAlphabet, MaxOpLen))

SpecOps == OpInit /\ [][Next]_vars

\* inputs made of comment delimiters, a newline, a blank and a letter
CommentAlphabet == {"/", "*", "\n", " ", "a"}

CommentInit == New(Texts(CommentAlphabet, MaxCommentLen))

SpecComment == CommentInit /\ [][Next]_vars

\* inputs made of digits, radix prefixes, a separator and a dot
NumAlphabet == {"0", "1", "8", "b", "o", "x", "f", "_", "."}

NumInit == New(Texts(NumAlphabet, MaxNumLen))

SpecNum == NumInit /\ [][Next]_vars

\* inputs made of dots, a tab and a letter, and the text of tests::simple_dots
DotAlphabet == {".", "\t", "a"}

SimpleDots == <<".", ".", "\t", ".", ".", ".", "/", "*", "U", "s", "e", "l", "e",
                "s", "s", " ", "c", "o", "m", "m", "e", "n", "t", "*", "/", ".">>

DotInit == New(Texts(DotAlphabet, MaxDotLen) \cup {SimpleDots})

SpecDot == DotInit /\ [][Next]_vars

\* inputs that open a character literal
CharAlphabet == {"'", "\\", "n", "x", "u", "7", "8"}

CharInit == New({<<"'">> \o text : text \in Texts(CharAlphabet, MaxCharLen)})

SpecChar == CharInit /\ [][Next]_vars

\* inputs made of whole lexemes: a character literal of each form and a blank
Pieces == { <<"'", "c", "'">>,
            <<"'", "\\", "n", "'">>,
            <<"'", "\\", "x", "7", "F", "'">>,
            <<" ">> }

RECURSIVE Concat(_)
Concat(texts) ==
    IF texts = <<>> THEN <<>> ELSE Head(texts) \o Concat(Tail(texts))

CharSeqInit == New({Concat(ps) : ps \in Texts(Pieces, MaxPieces)})

SpecCharSeq == CharSeqInit /\ [][Next]_vars

\* inputs made of whitespace characters, a letter and a semicolon
WsAlphabet == {" ", "\t", "\n", "\r", "a", ";"}

WsInit == New(Texts(WsAlphabet, MaxWsLen))

SpecWs == WsInit /\ [][Next]_vars

\* inputs that lead into every scan helper that starts with an assertion
AssertAlphabet == {"/", "*", "a", "'", "0", "1", "b", "o", "x", ".", "_"}

AssertInit == New(Texts(AssertAlphabet, MaxAssertLen))

SpecAssert == AssertInit /\ [][Next]_vars

\* Lexer::new over the compile context of the lexers before it: the string
\* table stays, and so does the record of the tokens made through it
NewLexer(texts) ==
    /\ lexers < MaxLexers
    /\ input' \in texts
    /\ pos' = 1
    /\ cur_char' = IF Len(input') >= 1 THEN input'[1] ELSE NUL
    /\ buffer' = <<>>
    /\ lexers' = lexers + 1
    /\ UNCHANGED <<table, result, item, out>>

\* inputs made of lexemes with equal texts in different kinds of token
SharedPieces == { <<"a">>, <<"1">>, <<"'", "a", "'">> }

SharedTexts == {Concat(ps) : ps \in Texts(SharedPieces, MaxSharedPieces)}

SharedInit == New(SharedTexts)

SharedNext == NextToken \/ IterNext \/ NewLexer(SharedTexts)

SpecShared == SharedInit /\ [][SharedNext]_vars

(***************************************************************************)
(* Vocabulary of the properties.                                           *)
(***************************************************************************)
\* the text behind the handle of a token
Text(t) == table[t.rc]

\* the lookahead as the input and the position give it
Lookahead(p) == IF p <= Len(input) THEN input[p] ELSE NUL

\* the last index of the longest run of characters of chars that starts at
\* index i of the input (i - 1 when the run is empty)
RunEnd(i, chars) ==
    CHOOSE j \in (i - 1)..Len(input) :
        /\ \A k \in i..j : input[k] \in chars
        /\ j = Len(input) \/ input[j + 1] \notin chars

Run(i, chars) == SubSeq(input, i, RunEnd(i, chars))

\* the characters that start a token
TokenStart == {"(", ")", "[", "]", "{", "}", "?", ";", ",", "_", ".", "+", "-",
               "*", "/", "%", "^", "!", "=", "&", "|", "<", ">", "'", "\""}

\* the characters that start no token and are no whitespace, letter or digit
Unexpected == Punctuation \ TokenStart

(***************************************************************************)
(* C1: every call of next_token that returns a token other than EndOfFile  *)
(* consumes at least one input character: the position of the scanner      *)
(* strictly advances during the call.                                      *)
(***************************************************************************)
ForwardProgress == [][result'.kind # "EndOfFile" => pos' > pos]_vars

(***************************************************************************)
(* C2: for every finite input, pulling tokens repeatedly reaches           *)
(* end-of-stream after finitely many calls.                                *)
(***************************************************************************)
Terminates == <>(result.kind = "EndOfFile")

(***************************************************************************)
(* C3: a character that starts no token and is no whitespace, letter or    *)
(* digit makes next_token return the Error token.                          *)
(***************************************************************************)
UnexpectedIsError ==
    [][(cur_char \in Unexpected) => (result'.kind = "Error")]_vars

(***************************************************************************)
(* C4: when the lookahead is the sentinel at the start of a call, the call *)
(* returns EndOfFile and leaves the lookahead (and the position) as they   *)
(* are, so that every later call returns EndOfFile too.                    *)
(***************************************************************************)
EndOfFileSticks ==
    [][cur_char = NUL =>
          /\ result'.kind = "EndOfFile"
          /\ cur_char' = NUL
          /\ pos' = pos]_vars

\* three calls were made on a non-empty input, the last two at its end
EndOfFileTwice ==
    /\ Len(input) >= 1
    /\ pos = Len(input) + 1
    /\ cur_char = NUL
    /\ Len(out) >= 3
    /\ out[Len(out) - 1].kind = "EndOfFile"
    /\ out[Len(out)].kind = "EndOfFile"

(***************************************************************************)
(* C5: once the Iterator adapter has returned None, every later pull       *)
(* returns None.                                                           *)
(***************************************************************************)
NoneSticks == [][item.tag = "None" => (item'.tag = "None")]_vars

ZeroAloneIsInteger ==
    (/\ Len(input) >= 1
     /\ input[1] = "0"
     /\ Lookahead(2) \notin {"b", "o", "x", ".", "_"} \cup is_decimal_numeral
                                \cup is_alpha
     /\ Len(out) >= 1)
    => /\ out[1].kind = "Literal"
       /\ out[1].arg = "Integer"
       /\ Text(out[1]) = <<"0">>

(***************************************************************************)
(* C6: operator scanning is longest-match.  The first token is the token   *)
(* of the longest operator spelling the input starts with, and the call    *)
(* stops right after that spelling, leaving the next character as the      *)
(* lookahead; when the spelling is the whole input, the following call     *)
(* returns EndOfFile.  (`//` and `/*` start comments, not operators.)      *)
(***************************************************************************)
Spelling(text, token) == [text |-> text, token |-> token]

OpSpellings ==
    { Spelling(<<"+">>, Tok("BinOp", "Plus")),
      Spelling(<<"+", "=">>, Tok("BinOpEq", "Plus")),
      Spelling(<<"-">>, Tok("BinOp", "Minus")),
      Spelling(<<"-", "=">>, Tok("BinOpEq", "Minus")),
      Spelling(<<"-", ">">>, Tok("Arrow", "")),
      Spelling(<<"*">>, Tok("BinOp", "Star")),
      Spelling(<<"*", "=">>, Tok("BinOpEq", "Star")),
      Spelling(<<"/">>, Tok("BinOp", "Slash")),
      Spelling(<<"/", "=">>, Tok("BinOpEq", "Slash")),
      Spelling(<<"%">>, Tok("BinOp", "Percent")),
      Spelling(<<"%", "=">>, Tok("BinOpEq", "Percent")),
      Spelling(<<"^">>, Tok("BinOp", "Caret")),
      Spelling(<<"^", "=">>, Tok("BinOpEq", "Caret")),
      Spelling(<<"!">>, Tok("Exclamation", "")),
      Spelling(<<"!", "=">>, Tok("RelOp", "NotEq")),
      Spelling(<<"=">>, Tok("Eq", "")),
      Spelling(<<"=", "=">>, Tok("RelOp", "EqEq")),
      Spelling(<<"=", ">">>, Tok("FatArrow", "")),
      Spelling(<<"&">>, Tok("BinOp", "And")),
      Spelling(<<"&", "&">>, Tok("LogicalOp", "AndAnd")),
      Spelling(<<"&", "=">>, Tok("BinOpEq", "And")),
      Spelling(<<"|">>, Tok("BinOp", "Or")),
      Spelling(<<"|", "|">>, Tok("LogicalOp", "OrOr")),
      Spelling(<<"|", "=">>, Tok("BinOpEq", "Or")),
      Spelling(<<"<">>, Tok("RelOp", "LessThan")),
      Spelling(<<"<", "=">>, Tok("RelOp", "LessEq")),
      Spelling(<<"<", "<">>, Tok("BinOp", "Shl")),
      Spelling(<<"<", "<", "=">>, Tok("BinOpEq", "Shl")),
      Spelling(<<">">>, Tok("RelOp", "GreaterThan")),
      Spelling(<<">", "=">>, Tok("RelOp", "GreaterEq")),
      Spelling(<<">", ">">>, Tok("BinOp", "Shr")),
      Spelling(<<">", ">", "=">>, Tok("BinOpEq", "Shr")) }

\* the input starts with the text
StartsWith(text) ==
    /\ Len(input) >= Len(text)
    /\ SubSeq(input, 1, Len(text)) = text

StartsComment == StartsWith(<<"/", "/">>) \/ StartsWith(<<"/", "*">>)

\* sp is the longest operator spelling at the start of the input
LongestSpelling(sp) ==
    /\ StartsWith(sp.text)
    /\ \A other \in OpSpellings :
           StartsWith(other.text) => Len(other.text) <= Len(sp.text)

OperatorLongestMatch ==
    \A sp \in OpSpellings :
        (LongestSpelling(sp) /\ ~StartsComment /\ Len(out) >= 1)
        => /\ out[1] = sp.token
           /\ Len(out) = 1 =>
                 (pos = Len(sp.text) + 1 /\ cur_char = Lookahead(pos))
           /\ (input = sp.text /\ Len(out) >= 2) => out[2].kind = "EndOfFile"

\* `<<=` was scanned to its end: one BinOpEq(Shl), then EndOfFile
ShiftAssignScanned ==
    /\ input = <<"<", "<", "=">>
    /\ Len(out) = 2
    /\ out[1] = Tok("BinOpEq", "Shl")
    /\ out[2].kind = "EndOfFile"

(***************************************************************************)
(* C7 as claimed: a line comment stops at the terminating newline without  *)
(* consuming it: after the Comment token the lookahead is the newline, or  *)
(* the sentinel when the comment runs to the end of the input.             *)
(***************************************************************************)
NotNewline == is_none_of({"\n", NUL})

LineCommentLeavesNewline ==
    (StartsWith(<<"/", "/">>) /\ Len(out) = 1)
    => /\ out[1] = Tok("Comment", "")
       /\ pos = RunEnd(3, NotNewline) + 1
       /\ cur_char = Lookahead(pos)

(***************************************************************************)
(* C7 as amended: a line comment consumes its terminating newline too:     *)
(* after the Comment token the lookahead is the character that follows the *)
(* newline, so that a letter after the newline starts the Identifier that  *)
(* is the next token (no Whitespace token for the newline); a comment that *)
(* runs to the end of the input yields Comment and then EndOfFile.         *)
(***************************************************************************)
LineCommentConsumesNewline ==
    (StartsWith(<<"/", "/">>) /\ Len(out) >= 1)
    => LET e == RunEnd(3, NotNewline)
       IN  /\ out[1] = Tok("Comment", "")
           /\ Len(out) = 1 =>
                 /\ pos = IF e < Len(input) THEN e + 2 ELSE e + 1
                 /\ cur_char = Lookahead(pos)
           /\ (e = Len(input) /\ Len(out) >= 2) => out[2].kind = "EndOfFile"
           /\ (e < Len(input) /\ Lookahead(e + 2) \in is_alpha /\ Len(out) >= 2)
              => /\ out[2].kind = "Identifier"
                 /\ Text(out[2]) = Run(e + 2, is_alpha_numeral \cup {"_"})

\* `//a`, newline, `a` was scanned: Comment, then Identifier(a)
LineCommentThenIdentifier ==
    /\ input = <<"/", "/", "a", "\n", "a">>
    /\ Len(out) = 2
    /\ out[1].kind = "Comment"
    /\ out[2].kind = "Identifier"
    /\ cur_char = NUL

(***************************************************************************)
(* C8: for an input that starts with `/*`, the first call returns Comment  *)
(* and stops just after the first `*` immediately followed by `/` that     *)
(* comes after the opening `/*` (the star of the opener closes nothing);   *)
(* when there is no such `*/` it returns Error.                            *)
(***************************************************************************)
Closers ==
    {i \in 3..(Len(input) - 1) : input[i] = "*" /\ input[i + 1] = "/"}

FirstCloser == CHOOSE i \in Closers : \A j \in Closers : i <= j

BlockCommentClosesAtFirstStarSlash ==
    (StartsWith(<<"/", "*">>) /\ Len(out) >= 1)
    => IF Closers # {}
       THEN /\ out[1] = Tok("Comment", "")
            /\ Len(out) = 1 =>
                  (pos = FirstCloser + 2 /\ cur_char = Lookahead(pos))
       ELSE out[1] = Tok("Error", "")

\* `/***/` was scanned as one Comment, up to its end
StarRunCommentScanned ==
    /\ input = <<"/", "*", "*", "*", "/">>
    /\ Len(out) = 1
    /\ out[1].kind = "Comment"
    /\ pos = 6

(***************************************************************************)
(* C11: a decimal-dot-decimal float (`0.0`, `42.0`, `13.37`) yields one    *)
(* Float literal token whose text is the literal verbatim.                 *)
(***************************************************************************)
FloatIsOneToken ==
    LET e == RunEnd(1, is_decimal_numeral)
        f == RunEnd(e + 2, is_decimal_numeral)
    IN  (/\ e >= 1
         /\ Lookahead(e + 1) = "."
         /\ f >= e + 2
         /\ Len(out) >= 1)
        => /\ out[1].kind = "Literal"
           /\ out[1].arg = "Float"
           /\ Text(out[1]) = SubSeq(input, 1, f)

(***************************************************************************)
(* C12: the text of an Integer literal is verbatim.  A literal with a      *)
(* radix prefix (0b, 0o, 0x), or a decimal literal that starts with 1-9    *)
(* and is not followed by `.`, yields one Integer token whose text is the  *)
(* consumed run, prefix and separators included, and the scan stops at the *)
(* first character that is neither a digit of the radix nor `_`.           *)
(***************************************************************************)
RadixDigits(prefix) ==
    IF prefix = "b" THEN {"0", "1"}
    ELSE IF prefix = "o" THEN {"0", "1", "2", "3", "4", "5", "6", "7"}
    ELSE IF prefix = "x"
    THEN {"0", "1", "2", "3", "4", "5", "6", "7", "8", "9", "a", "b", "c", "d",
          "e", "f", "A", "B", "C", "D", "E", "F"}
    ELSE {"0", "1", "2", "3", "4", "5", "6", "7", "8", "9"}

\* the first token is the Integer literal of the first e characters
IntegerUpTo(e) ==
    /\ out[1].kind = "Literal"
    /\ out[1].arg = "Integer"
    /\ Text(out[1]) = SubSeq(input, 1, e)
    /\ Len(out) = 1 => (pos = e + 1 /\ cur_char = Lookahead(pos) /\ buffer = <<>>)

IntegerTextVerbatim ==
    /\ (/\ Len(input) >= 2
        /\ input[1] = "0"
        /\ input[2] \in {"b", "o", "x"}
        /\ Len(out) >= 1)
       => IntegerUpTo(RunEnd(3, RadixDigits(input[2]) \cup {"_"}))
    /\ (/\ Len(input) >= 1
        /\ input[1] \in RadixDigits("") \ {"0"}
        /\ Lookahead(RunEnd(1, RadixDigits("") \cup {"_"}) + 1) # "."
        /\ Len(out) >= 1)
       => IntegerUpTo(RunEnd(1, RadixDigits("") \cup {"_"}))

\* `0b1_` before an `8` was scanned as Integer(0b1_)
BinaryLiteralScanned ==
    /\ input = <<"0", "b", "1", "_">>
    /\ Len(out) = 1
    /\ out[1].arg = "Integer"
    /\ Text(out[1]) = <<"0", "b", "1", "_">>

(***************************************************************************)
(* C13: dot scanning is longest-match up to three.  A run of n >= 1 dots   *)
(* yields n \div 3 DotDotDot tokens, then one DotDot when n % 3 = 2 or one *)
(* Dot when n % 3 = 1; and the text of tests::simple_dots yields DotDot,   *)
(* Whitespace, DotDotDot, Comment, Dot and then EndOfFile.                 *)
(***************************************************************************)
DotRunTokens ==
    /\ LET n == RunEnd(1, {"."})
       IN  n >= 1 =>
             /\ \A i \in 1..(n \div 3) :
                    Len(out) >= i => out[i] = Tok("DotDotDot", "")
             /\ (n % 3 = 2 /\ Len(out) > n \div 3)
                => out[(n \div 3) + 1] = Tok("DotDot", "")
             /\ (n % 3 = 1 /\ Len(out) > n \div 3)
                => out[(n \div 3) + 1] = Tok("Dot", "")
             /\ Len(out) = (n + 2) \div 3 => pos = n + 1
    /\ (input = SimpleDots /\ Len(out) >= 6)
       => SubSeq(out, 1, 6) = <<Tok("DotDot", ""), Tok("Whitespace", ""),
                                Tok("DotDotDot", ""), Tok("Comment", ""),
                                Tok("Dot", ""), Tok("EndOfFile", "")>>

\* five dots were scanned: DotDotDot, then DotDot
FiveDotsScanned ==
    /\ input = <<".", ".", ".", ".", ".">>
    /\ Len(out) = 2
    /\ out[1].kind = "DotDotDot"
    /\ out[2].kind = "DotDot"

(***************************************************************************)
(* C14: plain character literals.  `'c'` yields the Char literal with text *)
(* `c` for a character c that is neither a quote nor a backslash; the      *)
(* empty literal `''`, a literal of more than one character and a literal  *)
(* that is not closed at the end of the input each yield Error.            *)
(***************************************************************************)
CharOf(text) ==
    /\ out[1].kind = "Literal"
    /\ out[1].arg = "Char"
    /\ Text(out[1]) = text

PlainCharLiteral ==
    (/\ Len(input) >= 2
     /\ input[1] = "'"
     /\ input[2] # "\\"
     /\ Len(out) >= 1)
    => IF input[2] # "'" /\ Lookahead(3) = "'"
       THEN /\ CharOf(<<input[2]>>)
            /\ Len(out) = 1 => pos = 4
       ELSE out[1] = Tok("Error", "")

\* `'n'` was scanned as Char(n)
PlainCharScanned ==
    /\ input = <<"'", "n", "'">>
    /\ Len(out) = 1
    /\ out[1].arg = "Char"
    /\ Text(out[1]) = <<"n">>

(***************************************************************************)
(* C15: escaped character literals.  A simple escape (\n, \t, \r, \\, \')  *)
(* yields Char exactly when the closing quote follows it; a \x escape      *)
(* yields Char exactly when two hex digits, the first in 0-7, and then the *)
(* closing quote follow; \u and every other escape yield Error.  The text  *)
(* of the Char token is the raw characters between the quotes.             *)
(***************************************************************************)
HexDigits == RadixDigits("x")

SimpleEscapeClosed ==
    /\ Lookahead(3) \in {"n", "t", "r", "\\", "'"}
    /\ Lookahead(4) = "'"

HexEscapeClosed ==
    /\ Lookahead(3) = "x"
    /\ Lookahead(4) \in RadixDigits("o")
    /\ Lookahead(5) \in HexDigits
    /\ Lookahead(6) = "'"

CharLiteralWhollyConsumed ==
    [][(result'.arg = "Char") =>
          /\ pos' = pos + Len(table'[result'.rc]) + 2
          /\ input[pos' - 1] = "'"]_vars

(***************************************************************************)
(* C16: a maximal run of whitespace yields one Whitespace token.  A call   *)
(* that returns Whitespace consumes the whole run, leaves a lookahead that *)
(* is no whitespace, stores nothing in the buffer, and never follows a     *)
(* call that returned Whitespace.                                          *)
(***************************************************************************)
WhitespaceCollapses ==
    [][(result'.kind = "Whitespace") =>
          /\ cur_char \in is_whitespace
          /\ pos' = RunEnd(pos, {" ", "\t", "\n", "\r"}) + 1
          /\ cur_char' \notin {" ", "\t", "\n", "\r"}
          /\ buffer' = <<>>
          /\ result.kind # "Whitespace"]_vars

\* blank, tab, `a` was scanned: one Whitespace, then Identifier(a)
WhitespaceRunScanned ==
    /\ input = <<" ", "\t", "a">>
    /\ Len(out) = 2
    /\ out[1].kind = "Whitespace"
    /\ out[2].kind = "Identifier"

(***************************************************************************)
(* C17: interning identity.  Two tokens with equal text made through the   *)
(* same compile context, by one lexer or by two, carry the same handle,    *)
(* and a handle once returned keeps its text: no entry of the string table *)
(* is replaced or removed.                                                 *)
(***************************************************************************)
EqualTextSameHandle ==
    \A i, j \in 1..Len(out) :
        (out[i].rc # 0 /\ out[j].rc # 0 /\ Text(out[i]) = Text(out[j]))
        => out[i].rc = out[j].rc

HandlesKept ==
    /\ Len(table') >= Len(table)
    /\ \A rc \in 1..Len(table) : table'[rc] = table[rc]

NoAbort ==
    /\ result.kind # "Panic"
    /\ \A i \in 1..Len(out) : out[i].kind # "Panic"

\* `0_1` went through the assertions of scan_number_literal and
\* scan_decimal_literal
AssertionsPassed ==
    /\ input = <<"0", "_", "1">>
    /\ Len(out) = 1
    /\ out[1].arg = "Integer"
    /\ Text(out[1]) = <<"0", "_", "1">>

(***************************************************************************)
(* C20: scratch-buffer isolation.  The text of an Identifier, Integer or   *)
(* Char token is made of characters consumed by the call that returned it, *)
(* in the order of the input (the whole of them for an Identifier or an    *)
(* Integer, those after the opening quote for a Char), whatever an earlier *)
(* call left in the buffer; and the buffer is empty after the call.        *)
(***************************************************************************)
BufferIsolation ==
    [][(result'.rc # 0) =>
          LET text == table'[result'.rc]
          IN  /\ buffer' = <<>>
              /\ IF result'.arg = "Char"
                 THEN /\ text = SubSeq(input, pos + 1, pos + Len(text))
                      /\ pos + Len(text) < pos'
                 ELSE text = SubSeq(input, pos, pos' - 1)]_vars

\* `'aa`: the first call ended in Error with `a` in the buffer, the second
\* returned Identifier(a)
IdentifierAfterError ==
    /\ input = <<"'", "a", "a">>
    /\ Len(out) = 2
    /\ out[1].kind = "Error"
    /\ out[2].kind = "Identifier"
    /\ Text(out[2]) = <<"a">>

=============================================================================
